---- MODULE Spec2Model ----
(***************************************************************************)
(* A model of the jsdom API module (class JSDOM, transformOptions,         *)
(* normalizeHTML) and of the Window constructor with getComputedStyle.     *)
(*                                                                         *)
(* Three specifications share the variables:                               *)
(*   Spec      - the calling program: new JSDOM(...), dom.window,          *)
(*               dom.nodeLocation(node), JSDOM.fragment()                  *)
(*   SpecNorm  - normalizeHTML applied to every bounded input              *)
(*   SpecStyle - window.getComputedStyle applied to every bounded element  *)
(***************************************************************************)
EXTENDS Integers, Sequences, FiniteSets, TLC

VARIABLES
    pc,                     \* position of the running JSDOM constructor ("idle" when none runs)
    cur,                    \* the constructor call in flight or last made: caller, input, options, transformed
    trace,                  \* steps the constructor call in flight or last made has executed
    windows,                \* the Window objects created so far (index = object identity)
    instances,              \* windows of the JSDOM instances the constructor returned to the program
    handed,                 \* <<window, object>>: objects passed to a beforeParse hook the caller supplied
    ctorFlag,               \* per window: the includeNodeLocations option of its construction
    sharedFragmentDocument, \* module-level `let sharedFragmentDocument`
    calls,                  \* number of constructor calls the program made
    fragCalls,              \* number of JSDOM.fragment calls made
    fragCtor,               \* number of `new JSDOM()` evaluated by JSDOM.fragment
    fragDocs,               \* documents backing the fragments JSDOM.fragment returned
    lastCall,               \* the last API call made and its outcome
    nIn, nOut,              \* normalizeHTML: arguments and result
    sIn, sOut               \* getComputedStyle: element and returned declaration

vars == <<pc, cur, trace, windows, instances, handed, ctorFlag, sharedFragmentDocument,
          calls, fragCalls, fragCtor, fragDocs, lastCall, nIn, nOut, sIn, sOut>>

\* ------------------------------------------------------------------ bounds

MaxCalls == 1
MaxFragmentCalls == 2
MaxRules == 2

\* ------------------------------------------------------------------ values

Undefined == "undefined"
Null == "null"
NoError == "none"

ErrMime == "Error: could not parse MIME type"
ErrContentType == "RangeError: not a HTML or XML content type"
ErrURL == "TypeError: Invalid URL"
ErrNodeLocationsXML == "TypeError: includeNodeLocations with an XML content type"
ErrCookieJar == "ReferenceError: CookieJar is not defined"
ErrCreateWindow == "Error thrown by createWindow"
ErrHook == "Error thrown by beforeParse"
ErrParser == "Error thrown by parseIntoDocument"
ErrNoLocations == "Error: Location information was not saved for this jsdom"

\* ------------------------------------------------------------------ whatwg-mimetype

\* new MIMEType(string): the parsed type, or a throw for a string that is no MIME type.
MIMEType(s) ==
    CASE s = "text/html" ->
            [error |-> NoError, essence |-> "text/html", charset |-> Undefined]
      [] s = "text/html;charset=latin1" ->
            [error |-> NoError, essence |-> "text/html", charset |-> "latin1"]
      [] s = "text/html;charset=bogus" ->
            [error |-> NoError, essence |-> "text/html", charset |-> "bogus"]
      [] s = "application/xhtml+xml" ->
            [error |-> NoError, essence |-> "application/xhtml+xml", charset |-> Undefined]
      [] s = "application/xml;charset=koi8-r" ->
            [error |-> NoError, essence |-> "application/xml", charset |-> "koi8-r"]
      [] s = "text/plain" ->
            [error |-> NoError, essence |-> "text/plain", charset |-> Undefined]
      [] OTHER ->
            [error |-> ErrMime, essence |-> Undefined, charset |-> Undefined]

isHTML(mimeType) == mimeType.essence = "text/html"

isXML(mimeType) == mimeType.essence \in {"application/xml", "text/xml", "application/xhtml+xml"}

\* ------------------------------------------------------------------ encoding

\* whatwgEncoding.labelToName: the encoding a label names, null for an unknown label.
labelToName(label) ==
    CASE label = "latin1" -> "windows-1252"
      [] label = "utf-8" -> "UTF-8"
      [] label = "koi8-r" -> "KOI8-R"
      [] OTHER -> Null

\* html-encoding-sniffer: byte-order mark, then transport label, then the
\* in-document hint, then the default.
sniffHTMLEncoding(buffer, defaultEncoding, transportLayerEncodingLabel) ==
    IF buffer.bom # "none" THEN buffer.bom
    ELSE IF transportLayerEncodingLabel # Undefined
            /\ labelToName(transportLayerEncodingLabel) # Null
    THEN labelToName(transportLayerEncodingLabel)
    ELSE IF buffer.meta # "none" THEN buffer.meta
    ELSE defaultEncoding

ByteKinds == {"Buffer", "ArrayBuffer", "Uint8Array"}

\* A mutant of normalizeHTML: text input is sniffed like bytes.
normalizeHTML_sniffText(html, mimeType) ==
    IF html.kind # "undefined"
    THEN LET encoding == sniffHTMLEncoding(html,
                            IF isXML(mimeType) THEN "UTF-8" ELSE "windows-1252",
                            mimeType.charset)
         IN [html |-> [kind |-> "string", decodedAs |-> encoding], encoding |-> encoding]
    ELSE [html |-> [kind |-> "string", decodedAs |-> "verbatim"], encoding |-> "UTF-8"]

\* normalizeHTML(html = "", mimeType): typed views and ArrayBuffers become
\* Buffers; a Buffer is sniffed and decoded; anything else is String(html).
normalizeHTML(html, mimeType) ==
    IF html.kind \in ByteKinds
    THEN LET encoding == sniffHTMLEncoding(html,
                            IF isXML(mimeType) THEN "UTF-8" ELSE "windows-1252",
                            mimeType.charset)
         IN [html |-> [kind |-> "string", decodedAs |-> encoding], encoding |-> encoding]
    ELSE [html |-> [kind |-> "string", decodedAs |-> "verbatim"], encoding |-> "UTF-8"]

\* ------------------------------------------------------------------ transformOptions

ValidURL == "http://example.org"
InvalidURL == "not a url"

\* (new URL(string)).href: the serialized URL, or a throw.
URLparses(u) == u = ValidURL
URLhref(u) == IF u = ValidURL THEN "http://example.org/" ELSE Undefined

ToBoolean(v) == v = "true"

\* The defaults of transformed.windowOptions; the pass-through fields nothing
\* here reads (runScripts, pretendToBeVisual, storageQuota, resourceLoader,
\* virtualConsole) are left out.
DefaultWindowOptions(encoding) ==
    [url |-> "about:blank", referrer |-> "", contentType |-> "text/html",
     parsingMode |-> "html",
     parseOptions |-> [sourceCodeLocationInfo |-> FALSE, scriptingEnabled |-> "false"],
     encoding |-> encoding, cookieJar |-> Undefined]

Threw(e, encoding) ==
    [error |-> e, windowOptions |-> DefaultWindowOptions(encoding), beforeParse |-> "noop"]

\* The record transformOptions returns when no check throws.
Transformed(options, encoding, mimeType) ==
    LET d == DefaultWindowOptions(encoding)
        parsingMode == IF isHTML(mimeType) THEN "html" ELSE "xml"
    IN [error |-> NoError,
        windowOptions |->
            [d EXCEPT !.contentType = mimeType.essence,
                      !.parsingMode = parsingMode,
                      !.url = IF options.url # Undefined THEN URLhref(options.url) ELSE @,
                      !.referrer = IF options.referrer # Undefined
                                   THEN URLhref(options.referrer) ELSE @,
                      !.parseOptions = IF ToBoolean(options.includeNodeLocations)
                                       THEN [sourceCodeLocationInfo |-> TRUE,
                                             scriptingEnabled |-> Undefined]
                                       ELSE @,
                      !.cookieJar = options.cookieJar],
        beforeParse |-> IF options.beforeParse # Undefined THEN options.beforeParse ELSE "noop"]

\* A mutant of transformOptions: the URLs are parsed before the content type is checked.
transformOptions_urlFirst(options, encoding, mimeType) ==
    IF options.url # Undefined /\ ~URLparses(options.url) THEN Threw(ErrURL, encoding)
    ELSE IF options.referrer # Undefined /\ ~URLparses(options.referrer)
    THEN Threw(ErrURL, encoding)
    ELSE IF ~isHTML(mimeType) /\ ~isXML(mimeType) THEN Threw(ErrContentType, encoding)
    ELSE IF ToBoolean(options.includeNodeLocations) /\ ~isHTML(mimeType)
    THEN Threw(ErrNodeLocationsXML, encoding)
    ELSE IF options.cookieJar = Undefined THEN Threw(ErrCookieJar, encoding)
    ELSE Transformed(options, encoding, mimeType)

\* A mutant of transformOptions: includeNodeLocations is accepted with an XML content type.
transformOptions_noXMLCheck(options, encoding, mimeType) ==
    IF ~isHTML(mimeType) /\ ~isXML(mimeType) THEN Threw(ErrContentType, encoding)
    ELSE IF options.url # Undefined /\ ~URLparses(options.url) THEN Threw(ErrURL, encoding)
    ELSE IF options.referrer # Undefined /\ ~URLparses(options.referrer)
    THEN Threw(ErrURL, encoding)
    ELSE IF options.cookieJar = Undefined THEN Threw(ErrCookieJar, encoding)
    ELSE Transformed(options, encoding, mimeType)

\* transformOptions(options, encoding, mimeType), its checks in program order.
\* The module binds no CookieJar (none of its requires provides one), so
\* evaluating `new CookieJar()` for an absent options.cookieJar throws.
transformOptions(options, encoding, mimeType) ==
    IF ~isHTML(mimeType) /\ ~isXML(mimeType) THEN Threw(ErrContentType, encoding)
    ELSE IF options.url # Undefined /\ ~URLparses(options.url) THEN Threw(ErrURL, encoding)
    ELSE IF options.referrer # Undefined /\ ~URLparses(options.referrer)
    THEN Threw(ErrURL, encoding)
    ELSE IF ToBoolean(options.includeNodeLocations) /\ ~isHTML(mimeType)
    THEN Threw(ErrNodeLocationsXML, encoding)
    ELSE IF options.cookieJar = Undefined THEN Threw(ErrCookieJar, encoding)
    ELSE Transformed(options, encoding, mimeType)

\* ------------------------------------------------------------------ Window

NullRef == 0

\* documents.createWrapper(window, {...}): the document of window `id`, not yet parsed.
createDocument(options, id) ==
    [parsingMode |-> options.parsingMode, contentType |-> options.contentType,
     encoding |-> options.encoding, cookieJar |-> options.cookieJar,
     url |-> options.url, referrer |-> options.referrer,
     _parseOptions |-> options.parseOptions, defaultView |-> id,
     readyState |-> "empty", sourceCodeLocation |-> Undefined]

\* A mutant of Window: the frame counter starts at one and top is left unset.
Window_notTopLevel(options, id) ==
    [_globalProxy |-> id, _document |-> createDocument(options, id),
     _parent |-> id, _top |-> NullRef, _frameElement |-> NullRef, _length |-> 1]

\* function Window(options): the private data properties of the new window `id`.
Window(options, id) ==
    [_globalProxy |-> id, _document |-> createDocument(options, id),
     _parent |-> id, _top |-> id, _frameElement |-> NullRef, _length |-> 0]

wrapperForImpl(impl) == IF impl = NullRef THEN NullRef ELSE impl

\* The accessor properties define(this, {...}) installs on window w.
length(w) == windows[w]._length
window(w) == windows[w]._globalProxy
frameElement(w) == wrapperForImpl(windows[w]._frameElement)
frames(w) == windows[w]._globalProxy
self(w) == windows[w]._globalProxy
parent(w) == windows[w]._parent
top(w) == windows[w]._top

\* ------------------------------------------------------------------ the calling program

CtorContentTypes == {Undefined, "application/xhtml+xml", "text/plain", "not a mime type"}
URLs == {Undefined, ValidURL, InvalidURL}
Hooks == {Undefined, "hookReturns", "hookThrows"}
CookieJars == {Undefined, "jarA"}

Options ==
    [contentType : CtorContentTypes, url : URLs, referrer : URLs,
     includeNodeLocations : {Undefined, "false", "true"},
     cookieJar : CookieJars, beforeParse : Hooks]

\* options = {}
DefaultOptions ==
    [contentType |-> Undefined, url |-> Undefined, referrer |-> Undefined,
     includeNodeLocations |-> Undefined, cookieJar |-> Undefined, beforeParse |-> Undefined]

UndefinedInput == [kind |-> "undefined", bom |-> "none", meta |-> "none"]

\* The program passes bytes; JSDOM.fragment passes nothing.
CtorInputs == {[kind |-> "Buffer", bom |-> "none", meta |-> "none"]}

NoCall == [op |-> "none", error |-> NoError, target |-> NullRef, ref |-> NullRef, loc |-> Undefined]

NoCur ==
    [caller |-> "none", input |-> UndefinedInput, options |-> DefaultOptions,
     transformed |-> Threw(NoError, "UTF-8"), win |-> NullRef]

OpName(caller) == IF caller = "fragment" THEN "JSDOM.fragment" ELSE "new JSDOM"

Step(name) ==
    [step |-> name,
     doc |-> IF cur.win = NullRef THEN "none" ELSE windows[cur.win]._document.readyState]

\* An exception leaves the constructor (and JSDOM.fragment, when it is the caller).
Throw(e) ==
    /\ pc' = "idle"
    /\ lastCall' = [NoCall EXCEPT !.op = OpName(cur.caller), !.error = e]

\* Constructor line 15: the content type option, "text/html" when absent, parsed.
mimeTypeOf(options) ==
    MIMEType(IF options.contentType = Undefined THEN "text/html" ELSE options.contentType)

\* Constructor lines 15-18: MIMEType, normalizeHTML, transformOptions.
Begin(caller, input, options) ==
    LET mimeType == mimeTypeOf(options)
        norm == normalizeHTML(input, mimeType)
        t == IF mimeType.error # NoError THEN Threw(mimeType.error, "UTF-8")
             ELSE transformOptions(options, norm.encoding, mimeType)
    IN /\ cur' = [caller |-> caller, input |-> input, options |-> options,
                  transformed |-> t, win |-> NullRef]
       /\ IF t.error # NoError
          THEN /\ pc' = "idle"
               /\ trace' = <<>>
               /\ lastCall' = [NoCall EXCEPT !.op = OpName(caller), !.error = t.error]
          ELSE /\ pc' = "transformed"
               /\ trace' = <<[step |-> "transformOptions", doc |-> "none"]>>
               /\ lastCall' = [NoCall EXCEPT !.op = OpName(caller)]

\* new JSDOM(input, options), called by the program.
NewJSDOM ==
    /\ pc = "idle"
    /\ calls < MaxCalls
    /\ calls' = calls + 1
    /\ \E input \in CtorInputs, options \in Options : Begin("program", input, options)
    /\ UNCHANGED <<windows, instances, handed, ctorFlag, sharedFragmentDocument,
                   fragCalls, fragCtor, fragDocs, nIn, nOut, sIn, sOut>>

\* Constructor line 20: this[window] = createWindow(options.windowOptions).
CreateWindow ==
    /\ pc = "transformed"
    /\ trace' = Append(trace, Step("createWindow"))
    /\ \E ok \in BOOLEAN :
          IF ok
          THEN /\ windows' = Append(windows,
                                    Window(cur.transformed.windowOptions, Len(windows) + 1))
               /\ ctorFlag' = Append(ctorFlag, cur.options.includeNodeLocations)
               /\ cur' = [cur EXCEPT !.win = Len(windows) + 1]
               /\ pc' = "created"
               /\ UNCHANGED lastCall
          ELSE /\ Throw(ErrCreateWindow)
               /\ UNCHANGED <<windows, ctorFlag, cur>>
    /\ UNCHANGED <<instances, handed, sharedFragmentDocument, calls, fragCalls, fragCtor, fragDocs,
                   nIn, nOut, sIn, sOut>>

\* Constructor line 24: options.beforeParse(this[window]._globalProxy).
BeforeParse ==
    /\ pc = "created"
    /\ trace' = Append(trace, Step("beforeParse"))
    /\ handed' = IF cur.transformed.beforeParse = "noop" THEN handed
                 ELSE handed \cup {<<cur.win, windows[cur.win]._globalProxy>>}
    /\ IF cur.transformed.beforeParse = "hookThrows"
       THEN Throw(ErrHook)
       ELSE pc' = "hooked" /\ UNCHANGED lastCall
    /\ UNCHANGED <<cur, windows, instances, ctorFlag, sharedFragmentDocument,
                   calls, fragCalls, fragCtor, fragDocs, nIn, nOut, sIn, sOut>>

\* The parser fills the document; its nodes carry a source location when the
\* document's parse options ask for it.
Parsed(w) ==
    [windows EXCEPT ![w]._document.readyState = "parsed",
                    ![w]._document.sourceCodeLocation =
                        IF windows[w]._document._parseOptions.sourceCodeLocationInfo
                        THEN "location" ELSE Undefined]

\* A mutant of Parse: the document is closed and the instance kept although the parser threw.
Parse_closeAnyway ==
    /\ pc = "hooked"
    /\ trace' = Append(trace, Step("parseIntoDocument"))
    /\ \E ok \in BOOLEAN :
          IF ok
          THEN /\ windows' = Parsed(cur.win)
               /\ pc' = "parsed"
               /\ UNCHANGED <<lastCall, instances>>
          ELSE /\ Throw(ErrParser)
               /\ windows' = [windows EXCEPT ![cur.win]._document.readyState = "closed"]
               /\ instances' = instances \cup {cur.win}
    /\ UNCHANGED <<cur, handed, ctorFlag, sharedFragmentDocument, calls, fragCalls, fragCtor,
                   fragDocs, nIn, nOut, sIn, sOut>>

\* Constructor line 26: parseIntoDocument(html, documentImpl).
Parse ==
    /\ pc = "hooked"
    /\ trace' = Append(trace, Step("parseIntoDocument"))
    /\ \E ok \in BOOLEAN :
          IF ok
          THEN /\ windows' = Parsed(cur.win)
               /\ pc' = "parsed"
               /\ UNCHANGED lastCall
          ELSE /\ Throw(ErrParser)
               /\ UNCHANGED windows
    /\ UNCHANGED <<cur, instances, handed, ctorFlag, sharedFragmentDocument, calls, fragCalls,
                   fragCtor, fragDocs, nIn, nOut, sIn, sOut>>

\* What the end of the constructor hands to its caller: the program gets the
\* instance; JSDOM.fragment (lines 51-56) stores the instance's document and
\* returns the content of a template created by it.
Return(w, steps) ==
    /\ pc' = "idle"
    /\ trace' = Append(steps, [step |-> "return", doc |-> windows'[w]._document.readyState])
    /\ IF cur.caller = "fragment"
       THEN /\ sharedFragmentDocument' = windows[w]._globalProxy
            /\ fragDocs' = fragDocs \cup {windows[w]._globalProxy}
            /\ lastCall' = [NoCall EXCEPT !.op = "JSDOM.fragment",
                                          !.ref = windows[w]._globalProxy]
            /\ UNCHANGED instances
       ELSE /\ instances' = instances \cup {w}
            /\ lastCall' = [NoCall EXCEPT !.op = "new JSDOM", !.ref = w]
            /\ UNCHANGED <<sharedFragmentDocument, fragDocs>>

\* A mutant of Close: the constructor returns without closing the document.
Close_notClosed ==
    /\ pc = "parsed"
    /\ UNCHANGED windows
    /\ Return(cur.win, trace)
    /\ UNCHANGED <<cur, handed, ctorFlag, calls, fragCalls, fragCtor, nIn, nOut, sIn, sOut>>

\* Constructor line 28: documentImpl.close(); the constructor then returns.
Close ==
    /\ pc = "parsed"
    /\ windows' = [windows EXCEPT ![cur.win]._document.readyState = "closed"]
    /\ Return(cur.win, Append(trace, Step("close")))
    /\ UNCHANGED <<cur, handed, ctorFlag, calls, fragCalls, fragCtor, nIn, nOut, sIn, sOut>>

\* get window(): this[window]._globalProxy.
WindowAccessor ==
    /\ pc = "idle"
    /\ \E i \in instances :
          lastCall' = [NoCall EXCEPT !.op = "window", !.target = i,
                                     !.ref = windows[i]._globalProxy]
    /\ cur' = NoCur
    /\ UNCHANGED <<pc, trace, windows, instances, handed, ctorFlag, sharedFragmentDocument,
                   calls, fragCalls, fragCtor, fragDocs, nIn, nOut, sIn, sOut>>

\* A mutant of nodeLocation: the check of the parse options is missing.
nodeLocation_noCheck(i, n) ==
    [NoCall EXCEPT !.op = "nodeLocation", !.target = i, !.ref = n,
                   !.loc = windows[n]._document.sourceCodeLocation]

\* nodeLocation(node), on instance i, for a node of the document of window n.
nodeLocation(i, n) ==
    IF ~windows[i]._document._parseOptions.sourceCodeLocationInfo
    THEN [NoCall EXCEPT !.op = "nodeLocation", !.target = i, !.ref = n,
                        !.error = ErrNoLocations]
    ELSE [NoCall EXCEPT !.op = "nodeLocation", !.target = i, !.ref = n,
                        !.loc = windows[n]._document.sourceCodeLocation]

NodeLocation ==
    /\ pc = "idle"
    /\ \E i \in instances, n \in instances : lastCall' = nodeLocation(i, n)
    /\ cur' = NoCur
    /\ UNCHANGED <<pc, trace, windows, instances, handed, ctorFlag, sharedFragmentDocument,
                   calls, fragCalls, fragCtor, fragDocs, nIn, nOut, sIn, sOut>>

\* static fragment(string = ""): creates the shared document on first use.
Fragment ==
    /\ pc = "idle"
    /\ fragCalls < MaxFragmentCalls
    /\ fragCalls' = fragCalls + 1
    /\ IF sharedFragmentDocument = NullRef
       THEN /\ fragCtor' = fragCtor + 1
            /\ Begin("fragment", UndefinedInput, DefaultOptions)
            /\ UNCHANGED <<sharedFragmentDocument, fragDocs>>
       ELSE /\ fragDocs' = fragDocs \cup {sharedFragmentDocument}
            /\ lastCall' = [NoCall EXCEPT !.op = "JSDOM.fragment",
                                          !.ref = sharedFragmentDocument]
            /\ cur' = NoCur
            /\ UNCHANGED <<pc, trace, fragCtor, sharedFragmentDocument>>
    /\ UNCHANGED <<windows, instances, handed, ctorFlag, calls, nIn, nOut, sIn, sOut>>

\* ------------------------------------------------------------------ getComputedStyle

Props == {"color", "visibility"}

\* Object.keys(propertiesWithResolvedValueImplemented)
ResolvedProps == {"visibility"}

NotDeclared == [value |-> "", priority |-> ""]

\* What a style declaration block may hold for one property.
Entries ==
    {NotDeclared, [value |-> "v1", priority |-> ""], [value |-> "v2", priority |-> ""],
     [value |-> "v2", priority |-> "important"]}

StyleDeclarations == [Props -> Entries]

\* new CSSStyleDeclaration()
EmptyDeclaration == [p \in Props |-> NotDeclared]

Declared(style) == {p \in Props : style[p].value # ""}

getPropertyValue(style, property) == style[property].value

getPropertyPriority(style, property) == style[property].priority

\* CSSStyleDeclaration.setProperty: an empty value removes the property, any
\* other value replaces what the declaration held, whatever its priority was.
setProperty(declaration, property, value, priority) ==
    IF value = ""
    THEN [declaration EXCEPT ![property] = NotDeclared]
    ELSE [declaration EXCEPT ![property] = [value |-> value, priority |-> priority]]

\* forEach.call(style, property => declaration.setProperty(property, ...)).
RECURSIVE copyProperties(_, _, _)
copyProperties(declaration, style, properties) ==
    IF properties = {} THEN declaration
    ELSE LET property == CHOOSE x \in properties : TRUE
         IN copyProperties(
                setProperty(declaration, property, getPropertyValue(style, property),
                            getPropertyPriority(style, property)),
                style, properties \ {property})

\* forEachMatchingSheetRuleOfElement(elt, rule => ...), over the matching rules in order.
RECURSIVE copyRules(_, _)
copyRules(declaration, rules) ==
    IF rules = <<>> THEN declaration
    ELSE copyRules(copyProperties(declaration, Head(rules), Declared(Head(rules))),
                   Tail(rules))

\* forEach.call(declarations, property => declaration.setProperty(property, getResolvedValue(elt, property))).
RECURSIVE copyResolved(_, _, _)
copyResolved(declaration, resolved, properties) ==
    IF properties = {} THEN declaration
    ELSE LET property == CHOOSE x \in properties : TRUE
         IN copyResolved(setProperty(declaration, property, resolved[property], ""),
                         resolved, properties \ {property})

\* A mutant of getComputedStyle: the inline style is copied before the resolved values.
getComputedStyle_inlineEarly(elt) ==
    copyResolved(
        copyProperties(copyRules(EmptyDeclaration, elt.rules), elt.style, Declared(elt.style)),
        elt.resolved, ResolvedProps)

\* window.getComputedStyle(elt): sheet rules, then resolved values, then the inline style.
getComputedStyle(elt) ==
    copyProperties(
        copyResolved(copyRules(EmptyDeclaration, elt.rules), elt.resolved, ResolvedProps),
        elt.style, Declared(elt.style))

RuleLists == UNION {[1..n -> StyleDeclarations] : n \in 0..MaxRules}

\* An element: the style of the sheet rules matching it, in encounter order,
\* its resolved values, and its inline style.
Elements ==
    [rules : RuleLists, resolved : [ResolvedProps -> {"visible", "hidden"}],
     style : StyleDeclarations]

NoElement ==
    [rules |-> <<>>, resolved |-> [p \in ResolvedProps |-> "visible"],
     style |-> EmptyDeclaration]

GetComputedStyle ==
    /\ ~sOut.called
    /\ sOut' = [called |-> TRUE, declaration |-> getComputedStyle(sIn)]
    /\ UNCHANGED <<pc, cur, trace, windows, instances, handed, ctorFlag,
                   sharedFragmentDocument, calls, fragCalls, fragCtor, fragDocs, lastCall,
                   nIn, nOut, sIn>>

\* ------------------------------------------------------------------ normalizeHTML, alone

NormContentTypes ==
    {"text/html", "text/html;charset=latin1", "text/html;charset=bogus",
     "application/xhtml+xml", "application/xml;charset=koi8-r", "text/plain"}

NormInputs ==
    {i \in [kind : ByteKinds \cup {"undefined", "string"},
            bom : {"none", "UTF-8", "UTF-16LE", "UTF-16BE"},
            meta : {"none", "ISO-8859-2"}] :
        i.kind = "undefined" => i = UndefinedInput}

NoNormResult ==
    [called |-> FALSE,
     result |-> [html |-> [kind |-> "string", decodedAs |-> "verbatim"], encoding |-> Null]]

Normalize ==
    /\ ~nOut.called
    /\ nOut' = [called |-> TRUE, result |-> normalizeHTML(nIn.html, MIMEType(nIn.contentType))]
    /\ UNCHANGED <<pc, cur, trace, windows, instances, handed, ctorFlag,
                   sharedFragmentDocument, calls, fragCalls, fragCtor, fragDocs, lastCall,
                   nIn, sIn, sOut>>

NormInit == nIn = [html |-> UndefinedInput, contentType |-> "text/html"] /\ nOut = NoNormResult
StyleInit == sIn = NoElement /\ sOut = [called |-> FALSE, declaration |-> EmptyDeclaration]

CtorInit ==
    /\ pc = "idle"
    /\ cur = NoCur
    /\ trace = <<>>
    /\ windows = <<>>
    /\ instances = {}
    /\ handed = {}
    /\ ctorFlag = <<>>
    /\ sharedFragmentDocument = NullRef
    /\ calls = 0
    /\ fragCalls = 0
    /\ fragCtor = 0
    /\ fragDocs = {}
    /\ lastCall = NoCall

Init == CtorInit /\ NormInit /\ StyleInit

Next ==
    \/ NewJSDOM
    \/ CreateWindow
    \/ BeforeParse
    \/ Parse
    \/ Close
    \/ WindowAccessor
    \/ NodeLocation
    \/ Fragment

Spec == Init /\ [][Next]_vars

InitNorm ==
    /\ CtorInit /\ StyleInit
    /\ nIn \in [html : NormInputs, contentType : NormContentTypes]
    /\ nOut = NoNormResult

NextNorm == Normalize

SpecNorm == InitNorm /\ [][NextNorm]_vars

InitStyle ==
    /\ CtorInit /\ NormInit
    /\ sIn \in Elements
    /\ sOut = [called |-> FALSE, declaration |-> EmptyDeclaration]

NextStyle == GetComputedStyle

SpecStyle == InitStyle /\ [][NextStyle]_vars

\* ------------------------------------------------------------------ properties

curMime == mimeTypeOf(cur.options)

Steps == [i \in DOMAIN trace |-> trace[i].step]

URLsParse(options) ==
    /\ options.url # Undefined => URLparses(options.url)
    /\ options.referrer # Undefined => URLparses(options.referrer)

\* The constructor call the program made last has ended with an exception.
CtorFailed ==
    pc = "idle" /\ cur.caller = "program" /\ lastCall.op = "new JSDOM" /\ lastCall.error # NoError

\* The constructor call the program made last has returned an instance.
CtorReturned ==
    pc = "idle" /\ cur.caller = "program" /\ lastCall.op = "new JSDOM" /\ lastCall.error = NoError

\* C1: a constructor call whose content type parses but is neither HTML nor XML
\* ends with the content-type RangeError whatever the other options are; no
\* step of the construction (createWindow, beforeParse, parser, close) has run,
\* no window exists for it and none is returned.
C1_ContentTypeRejected ==
    (cur.caller = "program" /\ curMime.error = NoError /\ ~isHTML(curMime) /\ ~isXML(curMime))
        => /\ pc = "idle"
           /\ lastCall.op = "new JSDOM"
           /\ lastCall.error = ErrContentType
           /\ trace = <<>>
           /\ cur.win = NullRef
           /\ lastCall.ref = NullRef

C1_Witness ==
    /\ cur.caller = "program"
    /\ cur.options.contentType = "text/plain"
    /\ cur.options.url = InvalidURL
    /\ cur.options.includeNodeLocations = "true"
    /\ cur.options.cookieJar = Undefined
    /\ lastCall.error = ErrContentType

\* Every record transformOptions returned asks for source locations only in HTML parsing mode.
LocationsOnlyInHTML ==
    (cur.caller # "none" /\ cur.transformed.error = NoError)
        => (cur.transformed.windowOptions.parseOptions.sourceCodeLocationInfo
                => cur.transformed.windowOptions.parsingMode = "html")

\* C2 as stated: a constructor call with includeNodeLocations true and an XML
\* content type ends with the invalid-configuration error and creates no
\* window; every record transformOptions returns has sourceCodeLocationInfo
\* true only with parsingMode "html".
C2_Original ==
    /\ (cur.caller = "program" /\ ToBoolean(cur.options.includeNodeLocations)
            /\ curMime.error = NoError /\ isXML(curMime))
        => (pc = "idle" /\ lastCall.error = ErrNodeLocationsXML /\ cur.win = NullRef)
    /\ LocationsOnlyInHTML

\* C2 amended: such a call always fails and creates no window; the error is the
\* invalid-configuration TypeError when the url and referrer options, if given,
\* parse, and the URL parse error otherwise (the URLs are parsed first); every
\* record transformOptions returns has sourceCodeLocationInfo true only with
\* parsingMode "html".
C2_NodeLocationsXMLRejected ==
    /\ (cur.caller = "program" /\ ToBoolean(cur.options.includeNodeLocations)
            /\ curMime.error = NoError /\ isXML(curMime))
        => /\ pc = "idle"
           /\ lastCall.op = "new JSDOM"
           /\ cur.win = NullRef
           /\ trace = <<>>
           /\ lastCall.error = IF URLsParse(cur.options) THEN ErrNodeLocationsXML ELSE ErrURL
    /\ LocationsOnlyInHTML

C2_Witness ==
    /\ cur.caller = "program"
    /\ cur.options.includeNodeLocations = "true"
    /\ cur.options.contentType = "application/xhtml+xml"
    /\ cur.options.url = ValidURL
    /\ lastCall.error = ErrNodeLocationsXML

OtherOptionsValid(options) ==
    /\ mimeTypeOf(options).error = NoError
    /\ isHTML(mimeTypeOf(options)) \/ isXML(mimeTypeOf(options))
    /\ URLsParse(options)
    /\ ~(ToBoolean(options.includeNodeLocations) /\ isXML(mimeTypeOf(options)))

\* C3: when the other options are valid, transformOptions succeeds; with no
\* cookieJar option the window options carry a newly made cookie store, with a
\* cookieJar option they carry exactly that handle.
C3_CookieJarDefault ==
    (cur.caller # "none" /\ OtherOptionsValid(cur.options))
        => /\ cur.transformed.error = NoError
           /\ cur.options.cookieJar # Undefined
                => cur.transformed.windowOptions.cookieJar = cur.options.cookieJar
           /\ cur.options.cookieJar = Undefined
                => cur.transformed.windowOptions.cookieJar # Undefined

\* C4: a constructor call that returns has run, once each and in this order,
\* transformOptions, createWindow (document empty afterwards), beforeParse,
\* parseIntoDocument, close, return; whenever beforeParse is invoked the
\* document is still empty, and the parser is invoked only directly after
\* beforeParse has returned.
C4_ConstructionOrder ==
    /\ CtorReturned
        => trace = << [step |-> "transformOptions", doc |-> "none"],
                      [step |-> "createWindow", doc |-> "none"],
                      [step |-> "beforeParse", doc |-> "empty"],
                      [step |-> "parseIntoDocument", doc |-> "empty"],
                      [step |-> "close", doc |-> "parsed"],
                      [step |-> "return", doc |-> "closed"] >>
    /\ \A i \in DOMAIN trace :
          /\ trace[i].step = "beforeParse" => trace[i].doc = "empty"
          /\ trace[i].step = "parseIntoDocument"
                => (i > 1 /\ trace[i - 1].step = "beforeParse" /\ lastCall.error # ErrHook)
    /\ pc = "created" => windows[cur.win]._document.readyState = "empty"

C4_Witness ==
    /\ CtorReturned
    /\ cur.options.beforeParse = "hookReturns"
    /\ cur.win \in instances
    /\ windows[cur.win]._document.readyState = "closed"

\* The windows the program has got hold of: through a returned instance or as
\* the argument of its beforeParse hook.
Observable == instances \cup {h[1] : h \in handed}

\* The failed call ran nothing after the step that threw, and closed no document.
StoppedAtFailure ==
    /\ \A i \in DOMAIN trace : trace[i].step \notin {"close", "return"}
    /\ lastCall.error = ErrCreateWindow => Steps[Len(trace)] = "createWindow"
    /\ lastCall.error = ErrHook => Steps[Len(trace)] = "beforeParse"
    /\ lastCall.error = ErrParser => Steps[Len(trace)] = "parseIntoDocument"
    /\ lastCall.error \notin {ErrCreateWindow, ErrHook, ErrParser} => trace = <<>>
    /\ cur.win # NullRef => windows[cur.win]._document.readyState # "closed"

\* C5 as stated: a constructor call in which any step raises ends with that
\* exception, runs no later step, and leaves no window of that construction
\* observable by the program.
C5_Original ==
    CtorFailed => (StoppedAtFailure /\ cur.win \notin Observable)

\* C5 amended: a constructor call in which any step raises ends with that
\* exception, runs no later step and returns no instance; its window is
\* observable by the program afterwards only when the caller supplied a
\* beforeParse hook and the constructor had already called it with the window
\* (the hook or the parser raised).
C5_AllOrNothing ==
    CtorFailed
        => /\ StoppedAtFailure
           /\ cur.win \notin instances
           /\ lastCall.ref = NullRef
           /\ cur.win \in Observable
                => /\ cur.options.beforeParse # Undefined
                   /\ lastCall.error \in {ErrHook, ErrParser}
                   /\ \E i \in DOMAIN trace : trace[i].step = "beforeParse"

C5_Witness ==
    /\ CtorFailed
    /\ lastCall.error = ErrParser
    /\ cur.options.beforeParse = "hookReturns"
    /\ cur.win \in Observable

\* C6: nodeLocation on an instance throws exactly when includeNodeLocations was
\* not true at its construction, and otherwise returns the node's location
\* metadata; a document's location flag always equals the construction-time
\* option, whatever operations followed; a failing call changes nothing of the
\* windows, documents and instances.
C6_NodeLocation ==
    [][ /\ \A w \in DOMAIN windows' :
              windows'[w]._document._parseOptions.sourceCodeLocationInfo
                  = ToBoolean(ctorFlag'[w])
        /\ lastCall'.op = "nodeLocation"
              => /\ lastCall'.error =
                        IF ToBoolean(ctorFlag'[lastCall'.target]) THEN NoError
                        ELSE ErrNoLocations
                 /\ lastCall'.error = NoError
                        => lastCall'.loc = windows'[lastCall'.ref]._document.sourceCodeLocation
                 /\ <<windows, instances, handed, ctorFlag, sharedFragmentDocument>>'
                        = <<windows, instances, handed, ctorFlag, sharedFragmentDocument>>
      ]_vars

C6_Witness ==
    /\ lastCall.op = "nodeLocation"
    /\ lastCall.error = ErrNoLocations
    /\ ctorFlag[lastCall.target] = Undefined
    /\ fragCalls > 0

LastRuleValue(rules, property) ==
    LET declaring == {i \in DOMAIN rules : rules[i][property].value # ""}
    IN IF declaring = {} THEN ""
       ELSE rules[CHOOSE i \in declaring : \A j \in declaring : j <= i][property].value

\* C8: for every property P the declaration getComputedStyle returns holds the
\* inline value of P if the inline style declares P, else the resolved value if
\* P has a resolved value implemented, else the value of the last matching
\* sheet rule declaring P, else the empty value; priorities play no part.
C8_ComputedStylePrecedence ==
    sOut.called
        => \A P \in Props :
              getPropertyValue(sOut.declaration, P) =
                  IF sIn.style[P].value # "" THEN sIn.style[P].value
                  ELSE IF P \in ResolvedProps THEN sIn.resolved[P]
                  ELSE LastRuleValue(sIn.rules, P)

C8_Witness ==
    /\ sOut.called
    /\ Len(sIn.rules) = 2
    /\ sIn.rules[1]["color"] = [value |-> "v2", priority |-> "important"]
    /\ sIn.rules[2]["visibility"] = [value |-> "v2", priority |-> "important"]
    /\ sIn.style["color"] = [value |-> "v1", priority |-> ""]
    /\ sIn.style["visibility"] = [value |-> "v1", priority |-> ""]
    /\ getPropertyValue(sOut.declaration, "color") = "v1"
    /\ getPropertyValue(sOut.declaration, "visibility") = "v1"

\* C9: normalizeHTML always returns an encoding; for text input it is UTF-8
\* whatever the content type; for byte input it is the byte-order mark's
\* encoding, else the encoding the content type's charset names, else the
\* in-document hint, else UTF-8 for XML and windows-1252 otherwise.
C9_ResolvedEncoding ==
    nOut.called
        => LET mimeType == MIMEType(nIn.contentType)
               html == nIn.html
               encoding == nOut.result.encoding
           IN /\ encoding \notin {Null, Undefined, "none"}
              /\ html.kind \notin ByteKinds => encoding = "UTF-8"
              /\ html.kind \in ByteKinds
                    => encoding =
                         IF html.bom # "none" THEN html.bom
                         ELSE IF mimeType.charset \in {"latin1", "koi8-r", "utf-8"}
                         THEN labelToName(mimeType.charset)
                         ELSE IF html.meta # "none" THEN html.meta
                         ELSE IF isXML(mimeType) THEN "UTF-8" ELSE "windows-1252"

C9_Witness ==
    /\ nOut.called
    /\ nIn.html = [kind |-> "Uint8Array", bom |-> "UTF-8", meta |-> "ISO-8859-2"]
    /\ nIn.contentType = "application/xml;charset=koi8-r"
    /\ nOut.result.encoding = "UTF-8"

\* C10: for every window ever created, self, top, parent, frames and window are
\* the window itself, length is 0 and frameElement is null, in every state
\* after its creation; the object passed to beforeParse and the object the
\* JSDOM window accessor returns are that same window.
C10_SelfReferentialTopology ==
    /\ \A w \in DOMAIN windows :
          /\ self(w) = w /\ top(w) = w /\ parent(w) = w /\ frames(w) = w /\ window(w) = w
          /\ length(w) = 0
          /\ frameElement(w) = NullRef
    /\ \A h \in handed : h[2] = h[1]
    /\ lastCall.op = "window" => lastCall.ref = lastCall.target

C10_Witness ==
    /\ lastCall.op = "window"
    /\ lastCall.target \in instances
    /\ <<lastCall.target, lastCall.ref>> \in handed
    /\ fragCalls > 0

====
